---- MODULE Spec2Model ----
(***************************************************************************)
(* A model of the table operators of movies.py (MovieLens exploration):    *)
(*   merged_data                  - merge join of two tables on one key    *)
(*   get_groupped_data            - group-by over contiguous runs          *)
(*   get_groupped_data_from_file  - group-by fused with reading the file   *)
(*   get_sorted_data              - stable sort with a (not-None, value)   *)
(*                                  key                                    *)
(*   filtered_data_col_in_range   - range filter on an integer column      *)
(*                                                                         *)
(* A table is a sequence of rows, a row is a function from column names to *)
(* cells.  Python's None is the empty tuple << >>; a cell that holds the   *)
(* text of a number n is the one-element tuple <<n>>, so that None never   *)
(* has to be compared with a number.  Python list indices are 0-based and  *)
(* kept 0-based here (data_r_start, row_idx): data[i] of the source is     *)
(* data[i + 1] of the model.                                               *)
(***************************************************************************)
EXTENDS Integers, Sequences, FiniteSets, Bags, TLC

VARIABLES
    pc,             \* position of the operation under way
    \* merged_data
    data_left,      \* argument data_left
    data_right,     \* argument data_right
    row_idx,        \* number of left rows the outer loop has consumed
    data_r_start,   \* the right-side cursor
    merged_data,    \* the list merged_data being built
    comparisons,    \* how many times line 282's == has been evaluated
    matched,        \* per consumed left row: the matched right index, or NoMatch
    \* get_groupped_data / get_groupped_data_from_file
    source,         \* the rows of the file, in file order
    groupped_data,  \* result of get_groupped_data, as <<result>>, or << >>
    file_data,      \* result of get_groupped_data_from_file, likewise
    \* get_sorted_data
    data,           \* argument data
    reverse,        \* argument reverse of the first call
    sorted_data,    \* result of the first call, as <<result>>, or << >>
    resorted_data,  \* result of sorting sorted_data with reverse=False
    \* filtered_data_col_in_range
    rows,           \* argument data
    start,          \* argument start: None or <<n>>
    end,            \* argument end: None or <<n>>
    filtered        \* what the call returned, as <<value>>, or << >>

mergeVars  == <<data_left, data_right, row_idx, data_r_start, merged_data,
                comparisons, matched>>
groupVars  == <<source, groupped_data, file_data>>
sortVars   == <<data, reverse, sorted_data, resorted_data>>
filterVars == <<rows, start, end, filtered>>
vars       == <<pc, mergeVars, groupVars, sortVars, filterVars>>

----------------------------------------------------------------------------
(* Bounds of the model *)

MaxLeft == 3
MaxRight == 3
MaxKey == 4
MaxSource == 3
MaxGroupKey == 3
MaxHalfStars == 2
MaxSort == 4
MaxRating == 2
MaxFilterRows == 2
MaxYear == 2

None == << >>

SeqsUpTo(S, n) == UNION {[1..k -> S] : k \in 0..n}

Keys == 1..MaxKey

----------------------------------------------------------------------------
(* merged_data *)

join_on == "movieId"

NoMatch == 0 - 1

\* {**a, **b}: the keys of both, b's value where both have the key
DictMerge(a, b) ==
    [c \in (DOMAIN a) \cup (DOMAIN b) |-> IF c \in DOMAIN b THEN b[c] ELSE a[c]]

\* right_none = {e: None for e in columns_right if e != join_on}
RightNone(right) == [e \in (DOMAIN right[1]) \ {join_on} |-> None]

\* The test of line 282.
KeyMatchGe(left_key, right_key) == left_key >= right_key

KeyMatch(left_key, right_key) == left_key = right_key

\* The first index of range(data_r_start, len(data_right)).
ScanStartNext(cursor) == cursor + 1

ScanStart(cursor) == cursor

\* for i in range(i, len(data_right)): the first i whose key matches, or
\* len(data_right) when the range is exhausted without a match.
RECURSIVE ScanRight(_, _, _)
ScanRight(key, right, i) ==
    IF i >= Len(right) THEN Len(right)
    ELSE IF KeyMatch(key, right[i + 1][join_on]) THEN i
    ELSE ScanRight(key, right, i + 1)

\* line 284 (and the cursor left alone when the inner loop ends unmatched)
CursorResetOnMiss(found, i, cursor) == IF found THEN i ELSE 0

CursorAfter(found, i, cursor) == IF found THEN i ELSE cursor

\* lines 274-278: data_right[0] raises IndexError on an empty right table
MergedDataBegin ==
    /\ pc = "start"
    /\ IF Len(data_right) = 0
       THEN pc' = "raised"
       ELSE pc' = "loop"
    /\ UNCHANGED <<mergeVars, groupVars, sortVars, filterVars>>

\* lines 279-286: one iteration of the outer loop, the inner loop included
MergedDataRow ==
    /\ pc = "loop"
    /\ row_idx < Len(data_left)
    /\ LET row_left == data_left[row_idx + 1]
           first    == ScanStart(data_r_start)
           i        == ScanRight(row_left[join_on], data_right, first)
           found    == i < Len(data_right)
       IN  /\ merged_data' = Append(merged_data,
                 IF found THEN DictMerge(row_left, data_right[i + 1])
                 ELSE DictMerge(row_left, RightNone(data_right)))
           /\ data_r_start' = CursorAfter(found, i, data_r_start)
           /\ matched' = Append(matched, IF found THEN i ELSE NoMatch)
           /\ comparisons' = comparisons +
                 (IF found THEN i - first + 1
                  ELSE IF first < Len(data_right) THEN Len(data_right) - first
                  ELSE 0)
    /\ row_idx' = row_idx + 1
    /\ UNCHANGED <<pc, data_left, data_right, groupVars, sortVars, filterVars>>

\* line 288
MergedDataReturn ==
    /\ pc = "loop"
    /\ row_idx = Len(data_left)
    /\ pc' = "done"
    /\ UNCHANGED <<mergeVars, groupVars, sortVars, filterVars>>

\* The tables of the model: the left rows carry a title, the right rows a
\* rating; both payloads name the row's position, so every row is
\* distinguishable.
LeftTable(ks)  == [i \in 1..Len(ks) |-> [movieId |-> ks[i], title |-> <<i>>]]
RightTable(ks) == [i \in 1..Len(ks) |-> [movieId |-> ks[i], rating |-> <<i>>]]

IdleMerge ==
    /\ data_left = << >> /\ data_right = << >> /\ row_idx = 0
    /\ data_r_start = 0 /\ merged_data = << >> /\ comparisons = 0
    /\ matched = << >>

IdleGroup == source = << >> /\ groupped_data = << >> /\ file_data = << >>

IdleSort ==
    /\ data = << >> /\ reverse = FALSE /\ sorted_data = << >>
    /\ resorted_data = << >>

IdleFilter == rows = << >> /\ start = None /\ end = None /\ filtered = << >>

InitMerge ==
    /\ pc = "start"
    /\ \E ks \in SeqsUpTo(Keys, MaxLeft) : data_left = LeftTable(ks)
    /\ \E ks \in SeqsUpTo(Keys, MaxRight) : data_right = RightTable(ks)
    /\ row_idx = 0 /\ data_r_start = 0 /\ merged_data = << >>
    /\ comparisons = 0 /\ matched = << >>
    /\ IdleGroup /\ IdleSort /\ IdleFilter

NextMerge == MergedDataBegin \/ MergedDataRow \/ MergedDataReturn

SpecMerge == InitMerge /\ [][NextMerge]_vars

----------------------------------------------------------------------------
(* Claims about merged_data, checked under SpecMerge *)

\* strictly ascending by join_on: sorted, and join_on unique in the table
SortedUnique(t) ==
    \A i \in 1..(Len(t) - 1) : t[i][join_on] < t[i + 1][join_on]

KeysDistinct(t) ==
    \A i, j \in 1..Len(t) : i # j => t[i][join_on] # t[j][join_on]

\* the 1-based positions of the right rows whose key equals that of row l
EqualKeyRows(l) ==
    {j \in 1..Len(data_right) : data_right[j][join_on] = l[join_on]}

C1_Pre ==
    /\ Len(data_left) > 0 /\ Len(data_right) > 0
    /\ SortedUnique(data_left) /\ SortedUnique(data_right)

\* C1: on non-empty tables, each strictly ascending by join_on and sharing
\* no column but join_on, merged_data returns the left outer join: one row
\* per left row, in left order, with the left row's values in the left
\* columns and, in the right columns, the values of the equal-key right row
\* if there is one and None otherwise.
C1_LeftOuterJoin ==
    (pc = "done" /\ C1_Pre) =>
        /\ Len(merged_data) = Len(data_left)
        /\ \A i \in 1..Len(data_left) :
              LET l   == data_left[i]
                  out == merged_data[i]
              IN  /\ DOMAIN out = (DOMAIN l) \cup (DOMAIN data_right[1])
                  /\ \A c \in DOMAIN l : out[c] = l[c]
                  /\ IF EqualKeyRows(l) # {}
                     THEN \A j \in EqualKeyRows(l) :
                              \A c \in DOMAIN data_right[j] :
                                  out[c] = data_right[j][c]
                     ELSE \A c \in (DOMAIN data_right[1]) \ (DOMAIN l) :
                              out[c] = None

\* a finished run on sorted, key-unique tables with a matched row past the
\* first right row and an unmatched row
C1_Witness ==
    /\ pc = "done" /\ C1_Pre
    /\ \E i \in 1..Len(matched) : matched[i] >= 1
    /\ \E i \in 1..Len(matched) : matched[i] = NoMatch

\* C2 as stated: for any two tables, no right index is the matched index
\* of two different left rows.
C2_RightRowMatchesOnce ==
    \A a, b \in 1..Len(matched) :
        (a # b /\ matched[a] # NoMatch) => matched[a] # matched[b]

\* C2 as amended: when the left join keys are pairwise distinct, no right
\* index is the matched index of two different left rows, whatever the
\* right table holds.
C2_RightRowMatchesOnceDistinctLeft ==
    KeysDistinct(data_left) =>
        \A a, b \in 1..Len(matched) :
            (a # b /\ matched[a] # NoMatch) => matched[a] # matched[b]

\* distinct left keys, a right table with a repeated key, two matches
C2_Witness ==
    /\ pc = "done"
    /\ KeysDistinct(data_left)
    /\ ~KeysDistinct(data_right)
    /\ Cardinality({i \in 1..Len(matched) : matched[i] # NoMatch}) >= 2

\* C3 as stated: on sorted, key-unique tables of sizes m and n a run
\* evaluates the key equality test at most m + n times.
C3_LinearComparisons ==
    (SortedUnique(data_left) /\ SortedUnique(data_right)) =>
        comparisons <= Len(data_left) + Len(data_right)

\* C10, the cursor is a valid index of the right table
C10_CursorValid ==
    pc \in {"loop", "done"} =>
        (0 <= data_r_start /\ data_r_start < Len(data_right))

\* C10, one step: the cursor never retreats; a left row that finds no
\* match leaves it alone, a left row that matches sets it to the matched
\* index; a left row whose equal-key right rows all lie before the cursor
\* is emitted unmatched, with None in the right-only columns.
C10_CursorStep ==
    /\ data_r_start' >= data_r_start
    /\ (row_idx' = row_idx + 1) =>
          LET l == data_left[row_idx + 1]
              m == matched'[row_idx + 1]
          IN  /\ (m = NoMatch) => (data_r_start' = data_r_start)
              /\ (m # NoMatch) =>
                    /\ data_r_start' = m
                    /\ m >= data_r_start
                    /\ (m + 1) \in EqualKeyRows(l)
              /\ (/\ EqualKeyRows(l) # {}
                  /\ \A j \in EqualKeyRows(l) : j - 1 < data_r_start) =>
                    /\ m = NoMatch
                    /\ merged_data'[row_idx + 1] =
                           DictMerge(l, [rating |-> None])

\* C10: across a whole run of merged_data the right-side cursor is a
\* valid index of the right table and only ever advances, as C10_CursorStep
\* says for each step.
C10_CursorOnlyAdvances == [](C10_CursorValid) /\ [][C10_CursorStep]_vars

\* a finished run in which the cursor has advanced and a later left row,
\* whose equal-key right row lies before the cursor, came out unmatched
C10_Witness ==
    /\ pc = "done"
    /\ data_r_start >= 1
    /\ \E i \in 1..Len(matched) :
          /\ matched[i] = NoMatch
          /\ EqualKeyRows(data_left[i]) # {}
          /\ \E h \in 1..(i - 1) : matched[h] >= 1

----------------------------------------------------------------------------
(* get_groupped_data and get_groupped_data_from_file *)

\* The grouping runs on the ratings table: group_by = "movieId",
\* agg_column = "rating".  A rating cell holds the text of a number of stars
\* that is a multiple of one half, the only ratings of the dataset; the cell
\* <<h>> stands for the text of h / 2.  Such floats and their sums are exact
\* in binary floating point, so a float is modelled by the fraction
\* <<numerator, denominator>> it equals.
group_by == "movieId"
agg_column == "rating"

\* float(cell)
Float(cell) == <<cell[1], 2>>

RECURSIVE SumNum(_)
SumNum(fs) == IF fs = << >> THEN 0 ELSE fs[1][1] + SumNum(Tail(fs))

\* statistics.mean(agg_vals) on floats of denominator 2: the exact mean
Mean(fs) == <<SumNum(fs), 2 * Len(fs)>>

\* sum(v) / len(v) on floats of denominator 2
SumOverLen(fs) == <<SumNum(fs), 2 * Len(fs)>>

\* round(x, 4) of the non-negative fraction x, in units of 0.0001; a tie goes
\* to the even neighbour
Round4(x) ==
    LET n == x[1] * 10000
        q == n \div x[2]
        r == n % x[2]
    IN  IF 2 * r > x[2] \/ (2 * r = x[2] /\ q % 2 = 1) THEN q + 1 ELSE q

\* itertools.groupby: whether the row's key continues the run under way
SameRunAnywhere(runs, k) == \E r \in 1..Len(runs) : runs[r].k = k

SameRun(runs, k) == runs # << >> /\ runs[Len(runs)].k = k

\* groupby(data, key=lambda x: x[group_by]): the runs of data from row i on,
\* each [k |-> key, v |-> the run's rows], after the runs already split off
RECURSIVE GroupBy(_, _, _)
GroupBy(d, i, runs) ==
    IF i > Len(d) THEN runs
    ELSE LET k == d[i][group_by]
             n == Len(runs)
         IN  IF SameRun(runs, k)
             THEN GroupBy(d, i + 1,
                      [runs EXCEPT ![n] = [k |-> runs[n].k,
                                           v |-> Append(runs[n].v, d[i])]])
             ELSE GroupBy(d, i + 1, Append(runs, [k |-> k, v |-> <<d[i]>>]))

\* lines 245-253
GetGrouppedData(d) ==
    LET runs == GroupBy(d, 1, << >>)
    IN  [r \in 1..Len(runs) |->
            LET agg_vals == [i \in 1..Len(runs[r].v) |->
                                 Float(runs[r].v[i][agg_column])]
            IN  DictMerge([c \in {group_by} |-> runs[r].k],
                          [c \in {agg_column} |-> Round4(Mean(agg_vals))])]

\* line 107: gr_val in group_vals.keys()
KeyIsLastGroup(group_vals, gr_val) ==
    group_vals # << >> /\ group_vals[Len(group_vals)].k = gr_val

KeyInGroupVals(group_vals, gr_val) ==
    \E g \in 1..Len(group_vals) : group_vals[g].k = gr_val

\* lines 102-110: group_vals after the rows from i on; the dict is the
\* sequence of its items in insertion order
RECURSIVE Accumulate(_, _, _)
Accumulate(src, i, group_vals) ==
    IF i > Len(src) THEN group_vals
    ELSE LET gr_val  == src[i][group_by]
             agg_val == Float(src[i][agg_column])
         IN  IF KeyInGroupVals(group_vals, gr_val)
             THEN LET g == CHOOSE g \in 1..Len(group_vals) :
                               /\ group_vals[g].k = gr_val
                               /\ \A h \in 1..(g - 1) : group_vals[h].k # gr_val
                  IN  Accumulate(src, i + 1,
                          [group_vals EXCEPT ![g] =
                              [k |-> gr_val,
                               v |-> Append(group_vals[g].v, agg_val)]])
             ELSE Accumulate(src, i + 1,
                      Append(group_vals, [k |-> gr_val, v |-> <<agg_val>>]))

\* lines 97-117, on a file that opens and whose cells are numbers
GetGrouppedDataFromFile(src) ==
    LET group_vals == Accumulate(src, 1, << >>)
    IN  [g \in 1..Len(group_vals) |->
            DictMerge([c \in {group_by} |-> group_vals[g].k],
                      [c \in {agg_column} |->
                           Round4(SumOverLen(group_vals[g].v))])]

\* a call of get_groupped_data on the rows of the file
CallGetGrouppedData ==
    /\ pc = "group"
    /\ groupped_data = << >>
    /\ groupped_data' = <<GetGrouppedData(source)>>
    /\ UNCHANGED <<pc, source, file_data, mergeVars, sortVars, filterVars>>

\* a call of get_groupped_data_from_file on the file
CallGetGrouppedDataFromFile ==
    /\ pc = "group"
    /\ file_data = << >>
    /\ file_data' = <<GetGrouppedDataFromFile(source)>>
    /\ UNCHANGED <<pc, source, groupped_data, mergeVars, sortVars, filterVars>>

RatingRows ==
    [movieId : 1..MaxGroupKey, rating : {<<h>> : h \in 1..MaxHalfStars}]

InitGroup ==
    /\ pc = "group"
    /\ source \in SeqsUpTo(RatingRows, MaxSource)
    /\ groupped_data = << >> /\ file_data = << >>
    /\ IdleMerge /\ IdleSort /\ IdleFilter

NextGroup == CallGetGrouppedData \/ CallGetGrouppedDataFromFile

SpecGroup == InitGroup /\ [][NextGroup]_vars

----------------------------------------------------------------------------
(* Claims about the two group-by operators, checked under SpecGroup *)

\* the positions of source at which a run starts
RunStarts ==
    {i \in 1..Len(source) :
        i = 1 \/ source[i][group_by] # source[i - 1][group_by]}

\* the position at which the run that starts at s ends
RunEnd(s) ==
    CHOOSE e \in s..Len(source) :
        /\ \A i \in s..e : source[i][group_by] = source[s][group_by]
        /\ e = Len(source) \/ source[e + 1][group_by] # source[s][group_by]

\* the half stars of the rows at the positions P, added up
RECURSIVE HalfStars(_)
HalfStars(P) ==
    IF P = {} THEN 0
    ELSE LET i == CHOOSE i \in P : TRUE
         IN  source[i][agg_column][1] + HalfStars(P \ {i})

\* m, in units of 0.0001 star, is a multiple of 0.0001 nearest to the mean
\* of the ratings at the positions P
IsRoundedMean(m, P) ==
    LET den  == 2 * Cardinality(P)
        diff == m * den - HalfStars(P) * 10000
    IN  2 * diff <= den /\ 2 * diff >= 0 - den

\* C4: get_groupped_data returns one row per maximal contiguous run of equal
\* group_by values, in run order, with the run's key and the (rounded) mean
\* of that run's values only; so the number of rows is the number of
\* positions whose key differs from the previous row's, plus one for the
\* first row, and a key that occurs in two runs gets two rows.
C4_OneRowPerRun ==
    groupped_data # << >> =>
        LET out == groupped_data[1]
        IN  /\ Len(out) = Cardinality(RunStarts)
            /\ \A r \in 1..Len(out) :
                  \E s \in RunStarts :
                      /\ Cardinality({t \in RunStarts : t <= s}) = r
                      /\ DOMAIN out[r] = {group_by, agg_column}
                      /\ out[r][group_by] = source[s][group_by]
                      /\ IsRoundedMean(out[r][agg_column], s..RunEnd(s))

\* a key in two runs that are not adjacent, with different means, and a
\* row for each
C4_Witness ==
    /\ groupped_data # << >>
    /\ Len(source) = 3
    /\ source[1][group_by] = source[3][group_by]
    /\ source[1][group_by] # source[2][group_by]
    /\ Len(groupped_data[1]) = 3
    /\ groupped_data[1][1][agg_column] # groupped_data[1][3][agg_column]

IndexPermutations(n) ==
    {p \in [1..n -> 1..n] : \A i, j \in 1..n : i # j => p[i] # p[j]}

SeqToBag(sq) ==
    [x \in {sq[i] : i \in 1..Len(sq)} |->
        Cardinality({i \in 1..Len(sq) : sq[i] = x})]

SourceKeys == {source[i][group_by] : i \in 1..Len(source)}

SourceSorted ==
    \A i \in 1..(Len(source) - 1) :
        source[i][group_by] <= source[i + 1][group_by]

----------------------------------------------------------------------------
(* get_sorted_data *)

\* The sort runs on the merged table: sort_by = "rating", whose cell is a
\* number <<v>> or None.
sort_by == "rating"

\* key=lambda k: (k[sort_by] is not None, k[sort_by])
SortKey(row) == <<row[sort_by] # None, row[sort_by]>>

\* a < b on two such tuples: the first components that differ decide, and
\* the values are compared only when both flags are equal and the values
\* differ (so None is never ordered against a number)
KeyLess(a, b) ==
    IF a[1] # b[1] THEN (~a[1]) /\ b[1]
    ELSE IF a[2] = b[2] THEN FALSE
    ELSE a[2][1] < b[2][1]

Reverse(sq) == [i \in 1..Len(sq) |-> sq[Len(sq) + 1 - i]]

\* x put into the sorted list srt after every row that is not greater
RECURSIVE InsertAfterEquals(_, _, _)
InsertAfterEquals(srt, x, i) ==
    IF i > Len(srt) THEN Append(srt, x)
    ELSE IF KeyLess(SortKey(x), SortKey(srt[i]))
         THEN SubSeq(srt, 1, i - 1) \o <<x>> \o SubSeq(srt, i, Len(srt))
         ELSE InsertAfterEquals(srt, x, i + 1)

\* a stable ascending sort by SortKey
RECURSIVE StableSort(_)
StableSort(d) ==
    IF d = << >> THEN << >>
    ELSE InsertAfterEquals(StableSort(SubSeq(d, 1, Len(d) - 1)), d[Len(d)], 1)

\* sorted(...) that reverses the ascending result, turning equal rows round
SortedNaiveReverse(d, rev) ==
    IF rev THEN Reverse(StableSort(d)) ELSE StableSort(d)

\* sorted(...) that never looks at reverse
SortedAscendingOnly(d, rev) == StableSort(d)

\* line 223: sorted(data, key=..., reverse=reverse).  Python's sort is
\* stable in both directions: with reverse=True equal rows keep their input
\* order, as if the list were reversed, sorted and reversed again.
Sorted(d, rev) ==
    IF rev THEN Reverse(StableSort(Reverse(d))) ELSE StableSort(d)

\* lines 206-223
GetSortedData(d, rev) == Sorted(d, rev)

\* a call of get_sorted_data, in either direction
CallGetSortedData ==
    /\ pc = "sort"
    /\ sorted_data = << >>
    /\ \E rev \in BOOLEAN :
          /\ reverse' = rev
          /\ sorted_data' = <<GetSortedData(data, rev)>>
    /\ UNCHANGED <<pc, data, resorted_data, mergeVars, groupVars, filterVars>>

\* a second call, on the first call's result, ascending
CallGetSortedDataAscending ==
    /\ pc = "sort"
    /\ sorted_data # << >>
    /\ resorted_data = << >>
    /\ resorted_data' = <<GetSortedData(sorted_data[1], FALSE)>>
    /\ UNCHANGED <<pc, data, reverse, sorted_data, mergeVars, groupVars,
                   filterVars>>

RatingCells == {None} \cup {<<v>> : v \in 1..MaxRating}

\* the title names the row's position in the input
SortTable(cs) == [i \in 1..Len(cs) |-> [title |-> <<i>>, rating |-> cs[i]]]

InitSort ==
    /\ pc = "sort"
    /\ \E cs \in SeqsUpTo(RatingCells, MaxSort) : data = SortTable(cs)
    /\ reverse = FALSE /\ sorted_data = << >> /\ resorted_data = << >>
    /\ IdleMerge /\ IdleGroup /\ IdleFilter

NextSort == CallGetSortedData \/ CallGetSortedDataAscending

SpecSort == InitSort /\ [][NextSort]_vars

----------------------------------------------------------------------------
(* Claims about get_sorted_data, checked under SpecSort *)

IsNull(row) == row[sort_by] = None

\* the row's position in the input
InputPos(row) == row.title[1]

\* C6: get_sorted_data returns a permutation of its input with the None
\* rows after all others when reverse is True and before all others when it
\* is False, the other rows in descending respectively ascending order of
\* the column, and rows of equal sort key in their input order, in both
\* directions.
C6_StableSortNullPlacement ==
    sorted_data # << >> =>
        LET out == sorted_data[1]
        IN  /\ Len(out) = Len(data)
            /\ {out[i] : i \in 1..Len(out)} = {data[i] : i \in 1..Len(data)}
            /\ \A i, j \in 1..Len(out) :
                  i < j =>
                      /\ reverse => (IsNull(out[i]) => IsNull(out[j]))
                      /\ (~reverse) => (IsNull(out[j]) => IsNull(out[i]))
                      /\ (~IsNull(out[i]) /\ ~IsNull(out[j])) =>
                            IF reverse
                            THEN out[i][sort_by][1] >= out[j][sort_by][1]
                            ELSE out[i][sort_by][1] <= out[j][sort_by][1]
                      /\ (out[i][sort_by] = out[j][sort_by]) =>
                            InputPos(out[i]) < InputPos(out[j])

\* a descending sort of a table with a None row ahead of other rows, two
\* rows of equal value and two rows of different values
C6_Witness ==
    /\ sorted_data # << >>
    /\ reverse
    /\ Len(data) >= 4
    /\ IsNull(data[1])
    /\ \E i, j \in 2..Len(data) :
          i < j /\ ~IsNull(data[i]) /\ data[i][sort_by] = data[j][sort_by]
    /\ \E i, j \in 2..Len(data) :
          /\ ~IsNull(data[i]) /\ ~IsNull(data[j])
          /\ data[i][sort_by][1] < data[j][sort_by][1]
    /\ IsNull(sorted_data[1][Len(data)])

\* row i of the ascending result against row i, counted from the end, of
\* the descending result
Mirror(i) == sorted_data[1][Len(sorted_data[1]) + 1 - i]

\* C7 as stated: the descending result and the ascending sort of it are
\* the reverse of each other but for the order among None rows, also when
\* rows share a value.
C7_ReverseOfEachOther ==
    (reverse /\ resorted_data # << >>) =>
        \A i \in 1..Len(resorted_data[1]) :
            \/ resorted_data[1][i] = Mirror(i)
            \/ (IsNull(resorted_data[1][i]) /\ IsNull(Mirror(i)))

\* whether another row of the input holds the same cell as row
SharesValue(row) ==
    \E i \in 1..Len(data) : data[i] # row /\ data[i][sort_by] = row[sort_by]

\* C7 as amended: the column values of the two results are the reverse of
\* each other, and so are the rows but for the order among rows whose cell
\* is None or is shared with another row.
C7_ReverseUpToEqualKeys ==
    (reverse /\ resorted_data # << >>) =>
        \A i \in 1..Len(resorted_data[1]) :
            /\ resorted_data[1][i][sort_by] = Mirror(i)[sort_by]
            /\ \/ resorted_data[1][i] = Mirror(i)
               \/ IsNull(Mirror(i))
               \/ SharesValue(Mirror(i))

\* both sorts done on a table with a None row, two rows of equal value and
\* a row of another value
C7_Witness ==
    /\ reverse /\ resorted_data # << >>
    /\ \E i \in 1..Len(data) : IsNull(data[i])
    /\ \E i, j \in 1..Len(data) :
          i < j /\ ~IsNull(data[i]) /\ data[i][sort_by] = data[j][sort_by]
    /\ \E i, j \in 1..Len(data) :
          /\ ~IsNull(data[i]) /\ ~IsNull(data[j])
          /\ data[i][sort_by] # data[j][sort_by]
    /\ resorted_data[1] # Reverse(sorted_data[1])

----------------------------------------------------------------------------
(* filtered_data_col_in_range *)

\* The filter runs on the movies table: column = "year", whose cell is the
\* text of an integer, <<n>>, or None (no year found in the title); an empty
\* text is falsy like None and is the same cell here.
column == "year"

\* the truth value Python gives a bound: None and 0 are false
Truthy(bound) == bound # None /\ bound[1] # 0

\* not row[column] is false: the cell is a non-empty text ("0" included)
CellPresent(row) == row[column] # None

\* int(row[column])
IntOf(row) == row[column][1]

ReturnNone == [kind |-> "None"]
ReturnList(l) == [kind |-> "list", rows |-> l]

\* lines 423-453
FilteredDataColInRange(d, s, e) ==
    IF Truthy(s) /\ Truthy(e)
    THEN IF s[1] > e[1]
         THEN ReturnNone
         ELSE ReturnList(SelectSeq(d, LAMBDA row :
                  CellPresent(row) /\ s[1] >= IntOf(row) /\ IntOf(row) <= e[1]))
    ELSE IF Truthy(s)
    THEN ReturnList(SelectSeq(d, LAMBDA row :
             CellPresent(row) /\ s[1] <= IntOf(row)))
    ELSE IF Truthy(e)
    THEN ReturnList(SelectSeq(d, LAMBDA row :
             CellPresent(row) /\ IntOf(row) <= e[1]))
    ELSE ReturnList(d)

\* a call of filtered_data_col_in_range
CallFilteredDataColInRange ==
    /\ pc = "filter"
    /\ filtered = << >>
    /\ filtered' = <<FilteredDataColInRange(rows, start, end)>>
    /\ UNCHANGED <<pc, rows, start, end, mergeVars, groupVars, sortVars>>

Years == (0 - MaxYear)..MaxYear

YearCells == {None} \cup {<<n>> : n \in Years}

FilterTable(cs) == [i \in 1..Len(cs) |-> [title |-> <<i>>, year |-> cs[i]]]

InitFilter ==
    /\ pc = "filter"
    /\ \E cs \in SeqsUpTo(YearCells, MaxFilterRows) : rows = FilterTable(cs)
    /\ start \in YearCells
    /\ end \in YearCells
    /\ filtered = << >>
    /\ IdleMerge /\ IdleGroup /\ IdleSort

NextFilter == CallFilteredDataColInRange

SpecFilter == InitFilter /\ [][NextFilter]_vars

----------------------------------------------------------------------------
(* Claims about filtered_data_col_in_range, checked under SpecFilter *)

\* a bound counts as supplied iff it is not None
Supplied(bound) == bound # None

\* whether the claim keeps the row under the supplied bounds
Kept(row) ==
    /\ CellPresent(row)
    /\ Supplied(start) /\ Supplied(end) =>
          (start[1] >= IntOf(row) /\ IntOf(row) <= end[1])
    /\ Supplied(start) /\ ~Supplied(end) => IntOf(row) >= start[1]
    /\ ~Supplied(start) /\ Supplied(end) => IntOf(row) <= end[1]

\* C8 as stated: with a bound supplied iff it is not None (0 and negative
\* bounds included), the call returns, in input order, exactly the rows the
\* supplied bounds keep, and the input itself when no bound is supplied.
C8_KeepsRowsInBounds ==
    (/\ filtered # << >>
     /\ (Supplied(start) /\ Supplied(end)) => start[1] <= end[1]) =>
        filtered[1] =
            IF Supplied(start) \/ Supplied(end)
            THEN ReturnList(SelectSeq(rows, Kept))
            ELSE ReturnList(rows)

\* C9 as stated: whenever both bounds are supplied and start > end the
\* call returns None, never a table.
C9_NoneWhenStartAboveEnd ==
    (/\ filtered # << >>
     /\ Supplied(start) /\ Supplied(end)
     /\ start[1] > end[1]) =>
        filtered[1] = ReturnNone

====
